---- MODULE Spec2Model ----
(***************************************************************************)
(* The judging pipeline of llm_judging/bt: run_once (pipeline.py), the     *)
(* window helpers (util/helpers.py), the retry loop (call.py), the         *)
(* provider clients (llm/*.py) and the audit registry (db.py).             *)
(*                                                                         *)
(* Spec          one execution of run_once against one storage connection  *)
(* SpecRegistry  the registry operations of db.py driven by any caller     *)
(***************************************************************************)
EXTENDS Integers, Sequences, FiniteSets, TLC

\* ---------------------------------------------------------------- bounds
MaxTotal == 2
MaxAttempts == 2
ReplyMs == 1
TimeoutMs == 2
MaxPreds == 10
MaxFinalizes == 2
KeyFreeDraws == 2
MaxTextLen == 5

\* ------------------------------------------------------ program constants
MaxScore == 3
KeyLength == 12

\* Python's None for the optional integers (start, end, limit, score).
NULL == -1

Min(a, b) == IF a <= b THEN a ELSE b
Max(a, b) == IF a >= b THEN a ELSE b

\* Python truthiness of "x and x > 0" for an Optional[int].
SetAndPositive(x) == x # NULL /\ x # 0 /\ x > 0

VARIABLES
  pc,          \* position of run_once
  error,       \* the exception that is propagating out of run_once ("none" if none)
  cfg,         \* the cfg object handed to run_once
  run_key,     \* the run_key handed to run_once
  total_rows,  \* number of judged rows the data schema holds
  conn,        \* the storage connection: "none", "open", "closed", "lost"
  client,      \* the provider client: "none", "open", "closed", "lost"
  db,          \* committed (durable) storage: [runs, preds]
  tx,          \* what the connection sees: committed rows plus its own pending writes
  now,         \* storage clock read by NOW()
  window,      \* the QrelWindow computed at pipeline.py:61
  items,       \* the fetched rows, as positions in the (query_id, doc_id) order
  i,           \* loop index of "for i, row in enumerate(items, start=1)"
  attempt,     \* loop index of call_with_retry
  total_ms,    \* call_with_retry's accumulator
  last,        \* call_with_retry's last_reason / last_raw
  result,      \* (pred, reason, raw, ms_total) of the current item
  seen,        \* observer: what the provider calls of the current item did so far
  hist,        \* observer: per inserted prediction, in order, the counts "seen" held
  ops,         \* observer: the registry operation a direct caller of db.py made last
  sessions,    \* concurrent callers of db.py, per run_key: position, the scores the
               \* run records, predictions inserted, and the connection's pending rows
  parser       \* a reply handed to parse_score_and_reason: its text, token by token,
               \* and what the call returned

vars == <<pc, error, cfg, run_key, total_rows, conn, client, db, tx, now,
          window, items, i, attempt, total_ms, last, result, seen, hist, ops,
          sessions, parser>>

\* ------------------------------------------------------------ value sets
Scores == 0 .. MaxScore
NoReason == "None"
Providers == {"ollama", "hf_endpoint", "hf_hub"}
RunKeys == {"RK1", "RK2"}

\* What one HTTP exchange with the model can end in.
Transports == {"ok", "read_timeout", "connection_failure", "http_error", "bad_body"}

\* (score, reason) pairs parse_score_and_reason returns for the model's
\* texts: a score with a reason, a score without one, or (None, None).
ParseResults == {<<0, "ok">>, <<1, NoReason>>, <<MaxScore, "ok">>, <<NULL, NoReason>>}

\* Elapsed ms of one exchange: a read timeout runs to the timeout, every
\* other exchange ends sooner.
ElapsedMs(transport) == IF transport = "read_timeout" THEN TimeoutMs ELSE ReplyMs

\* One provider exchange as the environment decides it.
Exchanges ==
  {[transport |-> "ok", score |-> p[1], reason |-> p[2], ms |-> ElapsedMs("ok")] :
      p \in ParseResults}
  \cup
  {[transport |-> t, score |-> NULL, reason |-> NoReason, ms |-> ElapsedMs(t)] :
      t \in Transports \ {"ok"}}

\* gold_score of the row at position p of the (query_id, doc_id) order.
Gold(p) == (p - 1) % (MaxScore + 1)

\* ------------------------------------------------- util/helpers.py (pure)
\* Mutation: the validation without the "start_qrel > end_qrel" test.
validate_without_order_test(start_qrel, end_qrel, limit_qrels) ==
  \/ limit_qrels # NULL /\ limit_qrels <= 0
  \/ start_qrel # NULL /\ start_qrel <= 0
  \/ end_qrel # NULL /\ end_qrel <= 0

\* Mutation: the validation of the limit alone.
validate_limit_only(start_qrel, end_qrel, limit_qrels) ==
  limit_qrels # NULL /\ limit_qrels <= 0

\* validate_range_and_limit: TRUE when it raises ValueError.
validate_range_and_limit(start_qrel, end_qrel, limit_qrels) ==
  \/ limit_qrels # NULL /\ limit_qrels <= 0
  \/ start_qrel # NULL /\ start_qrel <= 0
  \/ end_qrel # NULL /\ end_qrel <= 0
  \/ start_qrel # NULL /\ end_qrel # NULL /\ start_qrel > end_qrel

\* Mutation: the count of a range taken as end - start.
compute_qrel_window_exclusive_end(total_available, start_qrel, end_qrel, limit_qrels) ==
  LET s == IF SetAndPositive(start_qrel) THEN start_qrel ELSE 1
      e == IF SetAndPositive(end_qrel) THEN end_qrel ELSE total_available
      s_eff == IF total_available > 0 THEN Max(1, Min(s, total_available)) ELSE 1
      e_eff == IF total_available > 0 THEN Max(1, Min(e, total_available)) ELSE 1
      intended == IF total_available > 0 THEN Max(0, e_eff - s_eff) ELSE 0
      processed == IF limit_qrels # NULL THEN Min(intended, limit_qrels) ELSE intended
  IN [start_1b |-> s_eff, end_1b |-> e_eff, intended_count |-> intended,
      processed_target |-> processed, is_subset |-> processed < total_available]

\* Mutation: is_subset measured against the range instead of the dataset.
compute_qrel_window_subset_of_range(total_available, start_qrel, end_qrel, limit_qrels) ==
  LET s == IF SetAndPositive(start_qrel) THEN start_qrel ELSE 1
      e == IF SetAndPositive(end_qrel) THEN end_qrel ELSE total_available
      s_eff == IF total_available > 0 THEN Max(1, Min(s, total_available)) ELSE 1
      e_eff == IF total_available > 0 THEN Max(1, Min(e, total_available)) ELSE 1
      intended == IF total_available > 0 THEN Max(0, e_eff - s_eff + 1) ELSE 0
      processed == IF limit_qrels # NULL THEN Min(intended, limit_qrels) ELSE intended
  IN [start_1b |-> s_eff, end_1b |-> e_eff, intended_count |-> intended,
      processed_target |-> processed, is_subset |-> processed < intended]

\* Mutation: the count computed without the "total_available > 0" guard.
compute_qrel_window_unguarded_count(total_available, start_qrel, end_qrel, limit_qrels) ==
  LET s == IF SetAndPositive(start_qrel) THEN start_qrel ELSE 1
      e == IF SetAndPositive(end_qrel) THEN end_qrel ELSE total_available
      s_eff == IF total_available > 0 THEN Max(1, Min(s, total_available)) ELSE 1
      e_eff == IF total_available > 0 THEN Max(1, Min(e, total_available)) ELSE 1
      intended == Max(0, e_eff - s_eff + 1)
      processed == IF limit_qrels # NULL THEN Min(intended, limit_qrels) ELSE intended
  IN [start_1b |-> s_eff, end_1b |-> e_eff, intended_count |-> intended,
      processed_target |-> processed, is_subset |-> processed < total_available]

\* Mutation: start and end taken as requested, without the clamp.
compute_qrel_window_unclamped(total_available, start_qrel, end_qrel, limit_qrels) ==
  LET s_eff == IF SetAndPositive(start_qrel) THEN start_qrel ELSE 1
      e_eff == IF SetAndPositive(end_qrel) THEN end_qrel ELSE total_available
      intended == IF total_available > 0 THEN Max(0, e_eff - s_eff + 1) ELSE 0
      processed == IF limit_qrels # NULL THEN Min(intended, limit_qrels) ELSE intended
  IN [start_1b |-> s_eff, end_1b |-> e_eff, intended_count |-> intended,
      processed_target |-> processed, is_subset |-> processed < total_available]

compute_qrel_window(total_available, start_qrel, end_qrel, limit_qrels) ==
  LET s == IF SetAndPositive(start_qrel) THEN start_qrel ELSE 1
      e == IF SetAndPositive(end_qrel) THEN end_qrel ELSE total_available
      s_eff == IF total_available > 0 THEN Max(1, Min(s, total_available)) ELSE 1
      e_eff == IF total_available > 0 THEN Max(1, Min(e, total_available)) ELSE 1
      intended == IF total_available > 0 THEN Max(0, e_eff - s_eff + 1) ELSE 0
      processed == IF limit_qrels # NULL THEN Min(intended, limit_qrels) ELSE intended
  IN [start_1b |-> s_eff, end_1b |-> e_eff, intended_count |-> intended,
      processed_target |-> processed, is_subset |-> processed < total_available]

\* ensure_official_guard: TRUE when it raises ValueError.
ensure_official_guard(official, is_subset) == official /\ is_subset

NoWindow == [start_1b |-> 0, end_1b |-> 0, intended_count |-> 0,
             processed_target |-> 0, is_subset |-> FALSE]

\* ------------------------------------------------------ db.py: fetch_qrels
\* "ORDER BY query_id, doc_id LIMIT lim OFFSET off" over total rows: the
\* positions returned, in order (lim = NULL: no LIMIT clause).
SqlLimitOffset(total, lim, off) ==
  LET hi == IF lim = NULL THEN total ELSE Min(total, off + lim)
      n == Max(0, hi - off)
  IN [k \in 1 .. n |-> off + k]

fetch_qrels(total, start, end, limit) ==
  LET offset == IF SetAndPositive(start) THEN Max(0, start - 1) ELSE 0
      window_count ==
        IF SetAndPositive(end)
        THEN (IF SetAndPositive(start) THEN Max(0, end - start + 1) ELSE end)
        ELSE NULL
      final_limit ==
        IF window_count # NULL /\ limit # NULL THEN Min(window_count, limit)
        ELSE IF window_count # NULL THEN window_count ELSE limit
  IN SqlLimitOffset(total, final_limit, offset)

\* ------------------------------------------------ the audit tables (db.py)
RECURSIVE GCD(_, _)
GCD(a, b) == IF b = 0 THEN a ELSE GCD(b, a % b)

\* A DOUBLE PRECISION percentage, kept as the fraction <<numerator, denominator>>
\* in lowest terms: 30.0 is <<30, 1>>, 0.0 is <<0, 1>>.
Fraction(n, d) == LET g == GCD(n, d) IN <<n \div g, d \div g>>
NoPct == <<0, 0>>

EmptyTables == [runs |-> {}, preds |-> {}]

RunRows(t, key) == {r \in t.runs : r.run_key = key}
PredRows(t, key) == {p \in t.preds : p.run_key = key}

\* The llm_runs row that start_run inserts (finished DEFAULT FALSE).
RunRow(key, model, c) ==
  [run_key |-> key, model |-> model, official |-> c.official,
   start_qrel |-> c.start_qrel, end_qrel |-> c.end_qrel, limit_qrels |-> c.limit_qrels,
   commit_every |-> c.commit_every, retry_enabled |-> c.retry_enabled,
   retry_attempts |-> c.retry_attempts,
   finished |-> FALSE, finished_at |-> NULL, invalid_pct |-> NoPct]

\* start_run's INSERT: llm_runs.run_key is the PRIMARY KEY.
start_run_conflicts(t, key) == RunRows(t, key) # {}
start_run(t, key, model, c) == [t EXCEPT !.runs = @ \cup {RunRow(key, model, c)}]

\* insert_prediction's INSERT: PRIMARY KEY (run_key, idx), run_key REFERENCES llm_runs.
insert_prediction_conflicts(t, key, idx) ==
  \/ RunRows(t, key) = {}
  \/ \E p \in t.preds : p.run_key = key /\ p.idx = idx
insert_prediction(t, key, idx, row, pred, pred_reason, is_correct, ms, raw) ==
  [t EXCEPT !.preds = @ \cup
     {[run_key |-> key, idx |-> idx, row |-> row, gold_score |-> Gold(row),
       pred_score |-> pred, pred_reason |-> pred_reason, is_correct |-> is_correct,
       ms_total |-> ms, raw |-> raw]}]

\* Mutation: the SELECT without "WHERE run_key = %s".
invalid_pct_of_every_run(t, key) ==
  LET total == Cardinality(t.preds)
      invalid == Cardinality({p \in t.preds : p.pred_score = NULL})
  IN IF total > 0 THEN Fraction(invalid * 100, total) ELSE <<0, 1>>

\* Mutation: the division without the "total > 0" guard; a run without
\* predictions gets no percentage.
invalid_pct_of_unguarded(t, key) ==
  LET total == Cardinality(PredRows(t, key))
      invalid == Cardinality({p \in PredRows(t, key) : p.pred_score = NULL})
  IN IF total > 0 THEN Fraction(invalid * 100, total) ELSE NoPct

\* finalize_run's SELECT and the guarded division.
invalid_pct_of(t, key) ==
  LET total == Cardinality(PredRows(t, key))
      invalid == Cardinality({p \in PredRows(t, key) : p.pred_score = NULL})
  IN IF total > 0 THEN Fraction(invalid * 100, total) ELSE <<0, 1>>

\* finalize_run's UPDATE ... WHERE run_key = key, at storage time t_now.
finalize_run(t, key, t_now) ==
  [t EXCEPT !.runs =
     {IF r.run_key = key
      THEN [r EXCEPT !.finished = TRUE, !.finished_at = t_now,
                     !.invalid_pct = invalid_pct_of(t, key)]
      ELSE r : r \in @}]

\* ------------------------------------------------- provider clients (llm/)
Raw(provider, err) == [provider |-> provider, error |-> err]

\* _single_call of the three clients on one exchange x: what it returns, or
\* raised = TRUE when the exception leaves the method.
OllamaClient_single_call(x) ==
  IF x.transport = "ok"
  THEN [raised |-> FALSE, score |-> x.score, reason |-> x.reason,
        raw |-> Raw("ollama", "none"), ms |-> x.ms]
  ELSE IF x.transport = "read_timeout"
  THEN [raised |-> FALSE, score |-> NULL, reason |-> NoReason,
        raw |-> Raw("ollama", "timeout"), ms |-> x.ms]
  ELSE [raised |-> TRUE, score |-> NULL, reason |-> NoReason,
        raw |-> Raw("ollama", x.transport), ms |-> x.ms]

HFEndpointClient_single_call(x) ==
  IF x.transport = "ok"
  THEN [raised |-> FALSE, score |-> x.score, reason |-> x.reason,
        raw |-> Raw("hf_endpoint", "none"), ms |-> x.ms]
  ELSE IF x.transport = "read_timeout"
  THEN [raised |-> FALSE, score |-> NULL, reason |-> NoReason,
        raw |-> Raw("hf_endpoint", "timeout"), ms |-> x.ms]
  ELSE [raised |-> TRUE, score |-> NULL, reason |-> NoReason,
        raw |-> Raw("hf_endpoint", x.transport), ms |-> x.ms]

HFHubClient_single_call(x) ==
  IF x.transport = "ok"
  THEN [raised |-> FALSE, score |-> x.score, reason |-> x.reason,
        raw |-> Raw("hf_hub", "none"), ms |-> x.ms]
  ELSE [raised |-> FALSE, score |-> NULL, reason |-> NoReason,
        raw |-> Raw("hf_hub", x.transport), ms |-> x.ms]

single_call(provider, x) ==
  IF provider = "ollama" THEN OllamaClient_single_call(x)
  ELSE IF provider = "hf_endpoint" THEN HFEndpointClient_single_call(x)
  ELSE HFHubClient_single_call(x)

\* call_with_retry: attempts = max(1, int(attempts)).
clamp_attempts(attempts) == Max(1, attempts)

NoResult == [pred |-> NULL, reason |-> NoReason, raw |-> Raw("none", "none"), ms_total |-> 0]
NoLast == [reason |-> NoReason, raw |-> Raw("none", "none")]

NoOp == [op |-> "none", key |-> "none", raised |-> FALSE]

\* No reply being parsed.
NoParser == [pc |-> "none", text |-> <<>>, block |-> <<>>, score |-> NULL, reason |-> <<>>]

\* No concurrent caller.
NoSessions == [k \in RunKeys |-> [pc |-> "none", plan |-> <<>>, n |-> 0, pending |-> {}]]

\* Nothing observed yet for the current item: invocations, invocations that
\* returned no score, sleeps, summed elapsed ms, whether an invocation raised,
\* the last exchange's transport, and what the last invocation returned.
NoneSeen == [calls |-> 0, nulls |-> 0, sleeps |-> 0, elapsed |-> 0, threw |-> FALSE,
             transport |-> "none", score |-> NULL, reason |-> NoReason,
             raw |-> Raw("none", "none")]

\* ------------------------------------------------------------ run_once
\* Storage as it is before the run: an earlier, finished run under "RK1".
PriorConfig == [has_range |-> TRUE, start_qrel |-> NULL, end_qrel |-> NULL,
                limit_qrels |-> 1, official |-> FALSE, commit_every |-> 1,
                retry_enabled |-> FALSE, retry_attempts |-> 1, provider |-> "ollama"]
PriorTables ==
  LET t1 == start_run(EmptyTables, "RK1", "ollama", PriorConfig)
      t2 == insert_prediction(t1, "RK1", 1, 1, NULL, NoReason, "null", 1,
                              Raw("ollama", "timeout"))
  IN finalize_run(t2, "RK1", 0)

model_label(c) == c.provider

procVars == <<window, items, i, attempt, total_ms, last, result, seen, hist>>
inputVars == <<cfg, run_key, total_rows>>
callVars == <<attempt, total_ms, last, seen>>

Alive == conn # "lost"

\* An exception raised inside the try block: control goes to the finally clause.
Raise(e) == pc' = "finally" /\ error' = e

\* pipeline.py:49  conn = connect()
Connect ==
  /\ pc = "connect"
  /\ conn' = "open"
  /\ tx' = db
  /\ pc' = "build_client"
  /\ UNCHANGED <<parser, error, client, db, now, procVars, inputVars, sessions, ops>>

\* pipeline.py:52  client = build_llm_client(cfg), before the try block: the
\* factory or the client's constructor may raise (missing token or endpoint
\* URL, model pull failing), and then run_once is left at once.
BuildClient ==
  /\ pc = "build_client" /\ Alive
  /\ \E built \in BOOLEAN :
       IF built
       THEN /\ client' = "open"
            /\ pc' = "plan"
            /\ UNCHANGED error
       ELSE /\ pc' = "failed"
            /\ error' = "ClientBuildError"
            /\ UNCHANGED client
  /\ UNCHANGED <<parser, conn, db, tx, now, procVars, inputVars, sessions, ops>>

\* pipeline.py:55-77  schema, count, validation and window computation.
\* cfg.start_qrel / cfg.end_qrel are read as plain attributes.
PlanWindow ==
  /\ pc = "plan" /\ Alive
  /\ IF ~cfg.has_range
     THEN Raise("AttributeError") /\ UNCHANGED window
     ELSE IF validate_range_and_limit(cfg.start_qrel, cfg.end_qrel, cfg.limit_qrels)
     THEN Raise("ValueError") /\ UNCHANGED window
     ELSE /\ window' = compute_qrel_window(total_rows, cfg.start_qrel, cfg.end_qrel,
                                           cfg.limit_qrels)
          /\ pc' = "start_run"
          /\ UNCHANGED error
  /\ UNCHANGED <<parser, conn, client, db, tx, now, items, i, attempt, total_ms, last, result,
                 seen, hist, inputVars, sessions, ops>>

\* pipeline.py:80-88  start_run_from_cfg -> db.start_run: INSERT, then commit.
StartRun ==
  /\ pc = "start_run" /\ Alive
  /\ IF start_run_conflicts(tx, run_key)
     THEN Raise("UniqueViolation") /\ UNCHANGED <<db, tx>>
     ELSE /\ tx' = start_run(tx, run_key, model_label(cfg), cfg)
          /\ db' = tx'
          /\ pc' = "fetch"
          /\ UNCHANGED error
  /\ UNCHANGED <<parser, conn, client, now, procVars, inputVars, sessions, ops>>

\* pipeline.py:91-100  fetch the rows; an empty list goes straight to finalize_run.
Fetch ==
  /\ pc = "fetch" /\ Alive
  /\ items' = fetch_qrels(total_rows, cfg.start_qrel, cfg.end_qrel, cfg.limit_qrels)
  /\ IF Len(items') = 0
     THEN pc' = "finalize" /\ UNCHANGED i
     ELSE pc' = "judge" /\ i' = 1
  /\ UNCHANGED <<parser, error, conn, client, db, tx, now, window, attempt, total_ms, last, result,
                 seen, hist, inputVars, sessions, ops>>

\* Mutation: the except clause records a score for the item.
exception_result_scored ==
  [pred |-> 0, reason |-> NoReason, raw |-> Raw("none", "exception during LLM call"),
   ms_total |-> 0]

\* pipeline.py:122  what the except clause records for an item whose call raised.
exception_result ==
  [pred |-> NULL, reason |-> NoReason, raw |-> Raw("none", "exception during LLM call"),
   ms_total |-> 0]

\* Mutation: total_ms keeps the last attempt's ms only.
accumulate_last_only(sum_ms, ms) == ms

\* call.py:28  total_ms += (ms or 0)
accumulate(sum_ms, ms) == sum_ms + ms

\* Mutation: the loop left one attempt early.
retry_stops_one_early(enabled, attempt_no, attempts) ==
  ~enabled \/ attempt_no + 1 >= attempts

\* Mutation: the break taken one attempt late.
retry_stops_one_late(enabled, attempt_no, attempts) ==
  ~enabled \/ attempt_no = attempts + 1

\* Mutation: the break taken on the attempt count alone.
retry_stops_ignoring_enabled(enabled, attempt_no, attempts) == attempt_no = attempts

\* call.py:52  "if not enabled or i == attempts: break"
retry_stops(enabled, attempt_no, attempts) == ~enabled \/ attempt_no = attempts

\* pipeline.py:117 -> client.judge -> call.py:24-53: one iteration of the retry
\* loop: fn(), accumulate, return on a score, else break or go on to the sleep.
\* An exception leaving fn() leaves call_with_retry and is caught at
\* pipeline.py:120-122.
Attempt ==
  /\ pc = "judge" /\ Alive
  /\ \E x \in Exchanges :
       LET r == single_call(cfg.provider, x)
           attempts == clamp_attempts(cfg.retry_attempts)
       IN /\ seen' = [seen EXCEPT !.calls = @ + 1, !.elapsed = @ + x.ms,
                                  !.nulls = IF ~r.raised /\ r.score = NULL
                                            THEN @ + 1 ELSE @,
                                  !.threw = r.raised, !.transport = x.transport,
                                  !.score = r.score, !.reason = r.reason,
                                  !.raw = r.raw]
          /\ IF r.raised
             THEN /\ result' = exception_result
                  /\ pc' = "insert"
                  /\ UNCHANGED <<total_ms, last, attempt>>
             ELSE /\ total_ms' = accumulate(total_ms, r.ms)
                  /\ last' = [reason |-> r.reason, raw |-> r.raw]
                  /\ IF r.score # NULL
                     THEN /\ result' = [pred |-> r.score, reason |-> r.reason,
                                        raw |-> r.raw, ms_total |-> total_ms']
                          /\ pc' = "insert"
                          /\ UNCHANGED attempt
                     ELSE IF retry_stops(cfg.retry_enabled, attempt, attempts)
                     THEN /\ result' = [pred |-> NULL, reason |-> last'.reason,
                                        raw |-> last'.raw, ms_total |-> total_ms']
                          /\ pc' = "insert"
                          /\ UNCHANGED attempt
                     ELSE /\ pc' = "sleep"
                          /\ UNCHANGED <<result, attempt>>
  /\ UNCHANGED <<parser, error, conn, client, db, tx, now, window, items, i, hist, inputVars, sessions, ops>>

\* call.py:55-56  time.sleep(backoff), then the next iteration.
Backoff ==
  /\ pc = "sleep" /\ Alive
  /\ seen' = [seen EXCEPT !.sleeps = @ + 1]
  /\ attempt' = attempt + 1
  /\ pc' = "judge"
  /\ UNCHANGED <<parser, error, conn, client, db, tx, now, window, items, i, total_ms, last, result,
                 hist, inputVars, sessions, ops>>

\* Mutation: the comparison made without the "pred is not None" test.
is_correct_of_unguarded(pred, gold) == IF pred = gold THEN "true" ELSE "false"

\* pipeline.py:124-126  is_correct stays None unless pred is not None.
is_correct_of(pred, gold) ==
  IF pred = NULL THEN "null" ELSE IF pred = gold THEN "true" ELSE "false"

\* Mutation: enumerate(items) counting in steps of two.
enumerate_idx_by_twos(k) == 2 * k

\* Mutation: enumerate(items) counting from 0.
enumerate_idx_from_zero(k) == k - 1

\* pipeline.py:106  enumerate(items, start=1): the k-th fetched row gets idx k.
enumerate_idx(k) == k

\* pipeline.py:124-139  is_correct, then insert_prediction (no commit).  The
\* INSERT may fail at the storage layer; the exception is not caught.
InsertPrediction ==
  /\ pc = "insert" /\ Alive
  /\ \E storage_ok \in BOOLEAN :
       IF storage_ok /\ ~insert_prediction_conflicts(tx, run_key, enumerate_idx(i))
       THEN /\ tx' = insert_prediction(tx, run_key, enumerate_idx(i), items[i], result.pred,
                                       result.reason,
                                       is_correct_of(result.pred, Gold(items[i])),
                                       result.ms_total, result.raw)
            /\ hist' = Append(hist, [calls |-> seen.calls, sleeps |-> seen.sleeps,
                                     elapsed |-> seen.elapsed, threw |-> seen.threw])
            /\ pc' = "commit"
            /\ UNCHANGED error
       ELSE /\ Raise("StorageError")
            /\ UNCHANGED <<tx, hist>>
  /\ UNCHANGED <<parser, conn, client, db, now, window, items, i, result, callVars, inputVars, sessions, ops>>

\* Mutation: the batch test on the wrong remainder.
commit_due_wrong_remainder(idx, commit_every) ==
  commit_every # 0 /\ idx % commit_every = 1

\* pipeline.py:141  "if cfg.commit_every and (i % cfg.commit_every == 0)"
commit_due(idx, commit_every) == commit_every # 0 /\ idx % commit_every = 0

\* pipeline.py:141-143  commit every commit_every items, then the next row
\* (or leave the loop).
BatchCommit ==
  /\ pc = "commit" /\ Alive
  /\ IF commit_due(enumerate_idx(i), cfg.commit_every)
     THEN db' = tx
     ELSE UNCHANGED db
  /\ IF i < Len(items)
     THEN i' = i + 1 /\ pc' = "judge"
     ELSE UNCHANGED i /\ pc' = "final_commit"
  /\ attempt' = 1 /\ total_ms' = 0 /\ last' = NoLast
  /\ seen' = NoneSeen
  /\ result' = NoResult
  /\ UNCHANGED <<parser, error, conn, client, tx, now, window, items, hist, inputVars, sessions, ops>>

\* pipeline.py:145  conn.commit() after the loop.
FinalCommit ==
  /\ pc = "final_commit" /\ Alive
  /\ db' = tx
  /\ pc' = "finalize"
  /\ UNCHANGED <<parser, error, conn, client, tx, now, procVars, inputVars, sessions, ops>>

\* pipeline.py:98 / 149  finalize_run: SELECT, UPDATE, commit.
Finalize ==
  /\ pc = "finalize" /\ Alive
  /\ tx' = finalize_run(tx, run_key, now)
  /\ db' = tx'
  /\ now' = now + 1
  /\ pc' = "finally"
  /\ UNCHANGED <<parser, error, conn, client, procVars, inputVars, sessions, ops>>

\* pipeline.py:157-166  finally: client.close(), conn.close(); closing the
\* connection discards whatever was not committed.
Finally ==
  /\ pc = "finally" /\ Alive
  /\ client' = "closed"
  /\ conn' = "closed"
  /\ tx' = db
  /\ pc' = IF error = "none" THEN "done" ELSE "failed"
  /\ UNCHANGED <<parser, error, db, now, procVars, inputVars, sessions, ops>>

\* The process is terminated from outside while run_once holds its
\* connection: no finally clause runs, the process and its memory are gone,
\* the connection is lost with its pending writes, and the storage keeps
\* exactly what was committed.
Terminate ==
  /\ conn = "open"
  /\ pc' = "killed"
  /\ conn' = "lost"
  /\ client' = IF client = "open" THEN "lost" ELSE client
  /\ tx' = db
  /\ window' = NoWindow /\ items' = <<>> /\ i' = 0
  /\ attempt' = 1 /\ total_ms' = 0 /\ last' = NoLast /\ result' = NoResult
  /\ seen' = NoneSeen /\ hist' = <<>>
  /\ UNCHANGED <<parser, error, db, now, inputVars, sessions, ops>>

\* ------------------------------------------------------- specifications
\* Optional 1-based positions and limits a configuration may carry: unset,
\* negative, 0, and every position up to one past the last row.
OptPositions == {NULL, -2} \cup (0 .. MaxTotal + 1)

\* has_range = FALSE is a cfg object without start_qrel / end_qrel
\* attributes (config.py's Settings declares none).
AllConfigs ==
  {c \in [has_range : BOOLEAN, start_qrel : OptPositions, end_qrel : OptPositions,
          limit_qrels : OptPositions, official : BOOLEAN, commit_every : 0 .. MaxTotal,
          retry_enabled : BOOLEAN, retry_attempts : 0 .. MaxAttempts,
          provider : Providers] :
     ~c.has_range => (c.start_qrel = NULL /\ c.end_qrel = NULL)}

\* The configurations explored: every window request and official flag under
\* the default retry policy and provider of config.py, and every retry
\* policy, provider and commit batch size under a non-official request
\* without start and end.
Configs ==
  {c \in AllConfigs :
     \/ c.retry_enabled /\ c.retry_attempts = 2 /\ c.provider = "ollama"
        /\ c.commit_every = 1
     \/ c.has_range /\ c.start_qrel = NULL /\ c.end_qrel = NULL
        /\ c.limit_qrels \in {NULL, 1} /\ ~c.official}

InitProcess ==
  /\ pc = "connect"
  /\ error = "none"
  /\ client = "none"
  /\ db = PriorTables
  /\ tx = PriorTables
  /\ now = 1
  /\ window = NoWindow
  /\ items = <<>>
  /\ i = 0
  /\ attempt = 1
  /\ total_ms = 0
  /\ last = NoLast
  /\ result = NoResult
  /\ seen = NoneSeen
  /\ hist = <<>>
  /\ ops = NoOp
  /\ sessions = NoSessions
  /\ parser = NoParser

Init ==
  /\ InitProcess
  /\ conn = "none"
  /\ cfg \in Configs
  /\ run_key \in RunKeys
  /\ total_rows \in 0 .. MaxTotal

Next ==
  \/ Connect
  \/ BuildClient
  \/ PlanWindow
  \/ StartRun
  \/ Fetch
  \/ Attempt
  \/ Backoff
  \/ InsertPrediction
  \/ BatchCommit
  \/ FinalCommit
  \/ Finalize
  \/ Finally
  \/ Terminate

Spec == Init /\ [][Next]_vars

\* ---------------------------------------------------- db.py, called directly
\* The registry functions of db.py driven by any caller that holds one
\* connection (autocommit off): start_run, insert_prediction, conn.commit()
\* and finalize_run in any order, on storage that already holds the finished
\* run "RK1".  A statement that fails aborts the transaction, and the caller
\* rolls it back.
RegStartRun ==
  /\ \E k \in RunKeys :
       IF start_run_conflicts(tx, k)
       THEN /\ tx' = db
            /\ ops' = [op |-> "start_run", key |-> k, raised |-> TRUE]
            /\ UNCHANGED db
       ELSE /\ tx' = start_run(tx, k, "ollama", PriorConfig)
            /\ db' = tx'
            /\ ops' = [op |-> "start_run", key |-> k, raised |-> FALSE]
  /\ UNCHANGED <<parser, pc, error, conn, client, now, procVars, inputVars, sessions>>

\* The caller numbers the predictions of the run it started the way run_once
\* does; a prediction either has a score or has none, and those without a
\* score are inserted first (finalize_run's COUNT does not see the order).
RegInsertPrediction ==
  /\ \E pred \in {NULL, 1} :
       LET k == "RK2"
           idx == Cardinality(PredRows(tx, k)) + 1
       IN /\ idx <= MaxPreds
          /\ pred = NULL => \A p \in PredRows(tx, k) : p.pred_score = NULL
          /\ IF insert_prediction_conflicts(tx, k, idx)
             THEN /\ tx' = db
                  /\ ops' = [op |-> "insert_prediction", key |-> k, raised |-> TRUE]
             ELSE /\ tx' = insert_prediction(tx, k, idx, 1, pred, NoReason,
                                             is_correct_of(pred, Gold(1)), ReplyMs,
                                             Raw("ollama", "none"))
                  /\ ops' = [op |-> "insert_prediction", key |-> k, raised |-> FALSE]
  /\ UNCHANGED <<parser, pc, error, conn, client, db, now, procVars, inputVars, sessions>>

RegCommit ==
  /\ tx # db
  /\ db' = tx
  /\ ops' = [op |-> "commit", key |-> "none", raised |-> FALSE]
  /\ UNCHANGED <<parser, pc, error, conn, client, tx, now, procVars, inputVars, sessions>>

RegFinalizeRun ==
  /\ now <= MaxFinalizes
  /\ \E k \in RunKeys :
       /\ tx' = finalize_run(tx, k, now)
       /\ db' = tx'
       /\ ops' = [op |-> "finalize_run", key |-> k, raised |-> FALSE]
  /\ now' = now + 1
  /\ UNCHANGED <<parser, pc, error, conn, client, procVars, inputVars, sessions>>

InitRegistry ==
  /\ InitProcess
  /\ conn = "open"
  /\ cfg = PriorConfig
  /\ run_key = "RK2"
  /\ total_rows = 1

NextRegistry ==
  \/ RegStartRun
  \/ RegInsertPrediction
  \/ RegCommit
  \/ RegFinalizeRun

SpecRegistry == InitRegistry /\ [][NextRegistry]_vars

\* ------------------------------------------------ call.py, called directly
\* call_with_retry as a client's judge() calls it, for every provider, both
\* values of enabled and every attempts from below zero to one past
\* MaxAttempts; the function has returned (or its fn has raised) at "insert".
CallConfigs ==
  {[PriorConfig EXCEPT !.provider = p, !.retry_enabled = en, !.retry_attempts = a] :
     p \in Providers, en \in BOOLEAN, a \in -1 .. MaxAttempts + 1}

InitCall ==
  /\ pc = "judge" /\ error = "none"
  /\ conn = "open" /\ client = "open"
  /\ cfg \in CallConfigs
  /\ run_key = "RK2" /\ total_rows = 1
  /\ db = PriorTables /\ tx = PriorTables /\ now = 1
  /\ window = NoWindow /\ items = <<1>> /\ i = 1
  /\ attempt = 1 /\ total_ms = 0 /\ last = NoLast /\ result = NoResult
  /\ seen = NoneSeen /\ hist = <<>> /\ ops = NoOp
  /\ sessions = NoSessions
  /\ parser = NoParser

NextCall ==
  \/ Attempt
  \/ Backoff

SpecCall == InitCall /\ [][NextCall]_vars

\* ------------------------------------------- util/parsing.py (bt.util.parsing)
\* A text is a sequence of tokens: each character the scanner, the JSON
\* grammar or the fallback pattern looks at is a token of its own, a word is
\* one token, and a number is its digits, one token each.
QUOTE == "\""
BACKSLASH == "\\"
\* The code-fence marker of three backquotes, as one token.
FENCE == "'''"
SPACE == " "
DigitTokens == {"0", "1", "2", "3", "7"}
WordTokens == {"score", "Score", "reason", "ok", "noise", "json"}
DigitValue(tok) ==
  CASE tok = "0" -> 0 [] tok = "1" -> 1 [] tok = "2" -> 2 [] tok = "3" -> 3 [] OTHER -> 7
\* \w of the regular expressions: letters and digits.
IsWordChar(tok) == tok \in DigitTokens \cup WordTokens
\* str.lower() / re.IGNORECASE on the tokens used.
Lower(tok) == IF tok = "Score" THEN "score" ELSE tok

\* None, as a block and as a reason.
NoBlock == <<>>
NoReasonText == <<NoReason>>

RECURSIVE SkipSpaces(_, _)
SkipSpaces(s, k) == IF k <= Len(s) /\ s[k] = SPACE THEN SkipSpaces(s, k + 1) ELSE k
RECURSIVE LStrip(_)
LStrip(s) == IF Len(s) > 0 /\ s[1] = SPACE THEN LStrip(Tail(s)) ELSE s
RECURSIVE RStrip(_)
RStrip(s) ==
  IF Len(s) > 0 /\ s[Len(s)] = SPACE THEN RStrip(SubSeq(s, 1, Len(s) - 1)) ELSE s
\* str.strip()
Strip(s) == RStrip(LStrip(s))

\* json.loads on a token sequence: objects, strings with the escapes \" and \\,
\* integers, spaces between the parts.  A decoded value is an integer, a
\* string (its characters after unescaping) or an object; a decoded top-level
\* object carries its members as a dict, in insertion order.
NoJson == [kind |-> "none", num |-> 0, str |-> <<>>]
JsonFail == [ok |-> FALSE, next |-> 0, val |-> NoJson, members |-> <<>>]
JsonOk(next, val, members) == [ok |-> TRUE, next |-> next, val |-> val, members |-> members]

RECURSIVE JsonStringBody(_, _, _)
JsonStringBody(s, k, acc) ==
  IF k > Len(s) THEN JsonFail
  ELSE IF s[k] = QUOTE
  THEN JsonOk(k + 1, [kind |-> "str", num |-> 0, str |-> acc], <<>>)
  ELSE IF s[k] = BACKSLASH
  THEN IF k + 1 <= Len(s) /\ s[k + 1] \in {QUOTE, BACKSLASH}
       THEN JsonStringBody(s, k + 2, Append(acc, s[k + 1]))
       ELSE JsonFail
  ELSE JsonStringBody(s, k + 1, Append(acc, s[k]))

RECURSIVE JsonDigits(_, _, _, _)
JsonDigits(s, k, n, count) ==
  IF k <= Len(s) /\ s[k] \in DigitTokens
  THEN JsonDigits(s, k + 1, 10 * n + DigitValue(s[k]), count + 1)
  ELSE [next |-> k, num |-> n, count |-> count]

JsonNumber(s, k) ==
  LET neg == k <= Len(s) /\ s[k] = "-"
      first == IF neg THEN k + 1 ELSE k
      d == JsonDigits(s, first, 0, 0)
  IN IF d.count = 0 \/ (d.count > 1 /\ s[first] = "0")
     THEN JsonFail
     ELSE JsonOk(d.next, [kind |-> "int", num |-> IF neg THEN 0 - d.num ELSE d.num,
                          str |-> <<>>], <<>>)

\* dict[key] = val
DictPut(members, key, val) ==
  IF \E j \in 1 .. Len(members) : members[j].key = key
  THEN [j \in 1 .. Len(members) |->
          IF members[j].key = key THEN [key |-> key, val |-> val] ELSE members[j]]
  ELSE Append(members, [key |-> key, val |-> val])

RECURSIVE JsonValue(_, _)
RECURSIVE JsonObject(_, _)
RECURSIVE JsonMembers(_, _, _)
JsonValue(s, k) ==
  IF k > Len(s) THEN JsonFail
  ELSE IF s[k] = QUOTE THEN JsonStringBody(s, k + 1, <<>>)
  ELSE IF s[k] = "{" THEN [JsonObject(s, k) EXCEPT !.members = <<>>]
  ELSE JsonNumber(s, k)

JsonObject(s, k) ==
  LET j == SkipSpaces(s, k + 1)
  IN IF j <= Len(s) /\ s[j] = "}"
     THEN JsonOk(j + 1, [kind |-> "obj", num |-> 0, str |-> <<>>], <<>>)
     ELSE JsonMembers(s, j, <<>>)

JsonMembers(s, k, acc) ==
  IF k > Len(s) \/ s[k] # QUOTE THEN JsonFail
  ELSE LET key == JsonStringBody(s, k + 1, <<>>)
       IN IF ~key.ok THEN JsonFail
          ELSE LET c == SkipSpaces(s, key.next)
               IN IF c > Len(s) \/ s[c] # ":" THEN JsonFail
                  ELSE LET v == JsonValue(s, SkipSpaces(s, c + 1))
                       IN IF ~v.ok THEN JsonFail
                          ELSE LET e == SkipSpaces(s, v.next)
                                   acc2 == DictPut(acc, key.val.str, v.val)
                               IN IF e > Len(s) THEN JsonFail
                                  ELSE IF s[e] = "}"
                                  THEN JsonOk(e + 1, [kind |-> "obj", num |-> 0,
                                                      str |-> <<>>], acc2)
                                  ELSE IF s[e] = ","
                                  THEN JsonMembers(s, SkipSpaces(s, e + 1), acc2)
                                  ELSE JsonFail

json_loads(s) ==
  LET k == SkipSpaces(s, 1)
      r == IF k <= Len(s) /\ s[k] = "{" THEN JsonObject(s, k) ELSE JsonValue(s, k)
  IN IF r.ok /\ SkipSpaces(s, r.next) > Len(s) THEN r ELSE JsonFail

\* bt/parsing.py:14  re.search(r"\{.*\}", text, re.DOTALL): the span from the
\* first "{" to the last "}", returned if it decodes.
greedy_json_block(s) ==
  LET opens == {j \in 1 .. Len(s) : s[j] = "{"}
      closes == {j \in 1 .. Len(s) : s[j] = "}"}
  IN IF opens = {} \/ closes = {} THEN NoBlock
     ELSE LET a == CHOOSE j \in opens : \A m \in opens : j <= m
              b == CHOOSE j \in closes : \A m \in closes : j >= m
          IN IF a < b /\ json_loads(SubSeq(s, a, b)).ok THEN SubSeq(s, a, b) ELSE NoBlock

\* Mutation: the scan given up at the first balanced span that does not decode.
RECURSIVE ScanStoppingAtFirstSpan(_, _, _, _, _, _)
ScanStoppingAtFirstSpan(s, k, depth, in_str, esc, start) ==
  IF k > Len(s) THEN NoBlock
  ELSE IF in_str
  THEN IF esc THEN ScanStoppingAtFirstSpan(s, k + 1, depth, TRUE, FALSE, start)
       ELSE IF s[k] = BACKSLASH THEN ScanStoppingAtFirstSpan(s, k + 1, depth, TRUE, TRUE, start)
       ELSE IF s[k] = QUOTE THEN ScanStoppingAtFirstSpan(s, k + 1, depth, FALSE, FALSE, start)
       ELSE ScanStoppingAtFirstSpan(s, k + 1, depth, TRUE, FALSE, start)
  ELSE IF s[k] = QUOTE THEN ScanStoppingAtFirstSpan(s, k + 1, depth, TRUE, esc, start)
  ELSE IF s[k] = "{"
  THEN ScanStoppingAtFirstSpan(s, k + 1, depth + 1, FALSE, esc,
                               IF depth = 0 THEN k ELSE start)
  ELSE IF s[k] = "}" /\ depth > 0
  THEN IF depth = 1 /\ start # 0
       THEN IF json_loads(SubSeq(s, start, k)).ok THEN SubSeq(s, start, k) ELSE NoBlock
       ELSE ScanStoppingAtFirstSpan(s, k + 1, depth - 1, FALSE, esc, start)
  ELSE ScanStoppingAtFirstSpan(s, k + 1, depth, FALSE, esc, start)

\* parsing.py:82-112  the loop of _find_first_json_object from character k on
\* (start = 0: None).
RECURSIVE Scan(_, _, _, _, _, _)
Scan(s, k, depth, in_str, esc, start) ==
  IF k > Len(s) THEN NoBlock
  ELSE IF in_str
  THEN IF esc THEN Scan(s, k + 1, depth, TRUE, FALSE, start)
       ELSE IF s[k] = BACKSLASH THEN Scan(s, k + 1, depth, TRUE, TRUE, start)
       ELSE IF s[k] = QUOTE THEN Scan(s, k + 1, depth, FALSE, FALSE, start)
       ELSE Scan(s, k + 1, depth, TRUE, FALSE, start)
  ELSE IF s[k] = QUOTE THEN Scan(s, k + 1, depth, TRUE, esc, start)
  ELSE IF s[k] = "{"
  THEN Scan(s, k + 1, depth + 1, FALSE, esc, IF depth = 0 THEN k ELSE start)
  ELSE IF s[k] = "}" /\ depth > 0
  THEN IF depth = 1 /\ start # 0
       THEN IF json_loads(SubSeq(s, start, k)).ok
            THEN SubSeq(s, start, k)
            ELSE Scan(s, k + 1, 0, FALSE, esc, 0)
       ELSE Scan(s, k + 1, depth - 1, FALSE, esc, start)
  ELSE Scan(s, k + 1, depth, FALSE, esc, start)

\* Mutation: see ScanStoppingAtFirstSpan.
find_first_json_object_first_span_only(s) == ScanStoppingAtFirstSpan(s, 1, 0, FALSE, FALSE, 0)

\* parsing.py:72-112
find_first_json_object(s) == Scan(s, 1, 0, FALSE, FALSE, 0)

\* parsing.py:47, 51-53  one enclosing code fence, with an optional "json"
\* after the opening one, is taken off; any other text is returned as it is.
strip_code_fences(text) ==
  LET t == Strip(text)
  IN IF Len(t) >= 2 /\ t[1] = FENCE /\ t[Len(t)] = FENCE
     THEN LET body == SubSeq(t, 2, Len(t) - 1)
          IN Strip(IF Len(body) > 0 /\ Lower(body[1]) = "json" THEN Tail(body) ELSE body)
     ELSE text

\* parsing.py:6-12
extract_json_block(text) == find_first_json_object(strip_code_fences(text))

\* parsing.py:56-61  the value of the first key that equals name in lower case.
get_ci_key(members, name) ==
  LET hits == {j \in 1 .. Len(members) :
                 Len(members[j].key) = 1 /\ Lower(members[j].key[1]) = name}
  IN IF hits = {} THEN NoJson
     ELSE members[CHOOSE j \in hits : \A m \in hits : j <= m].val

\* int(value) of a str: optional sign and digits, spaces around them allowed.
IntOfStr(content) ==
  LET t == Strip(content)
      neg == Len(t) > 0 /\ t[1] = "-"
      first == IF neg THEN 2 ELSE 1
      d == JsonDigits(t, first, 0, 0)
  IN IF d.count > 0 /\ d.next > Len(t)
     THEN [ok |-> TRUE, num |-> IF neg THEN 0 - d.num ELSE d.num]
     ELSE [ok |-> FALSE, num |-> 0]

\* Mutation: the score taken without the range test.
normalize_score_unbounded(value) ==
  IF value.kind = "int" THEN value.num
  ELSE IF value.kind = "str" /\ IntOfStr(value.str).ok THEN IntOfStr(value.str).num
  ELSE NULL

\* parsing.py:64-69  int(value) if it lies in [0, 3], else None.
normalize_score(value) ==
  LET iv == IF value.kind = "int" THEN [ok |-> TRUE, num |-> value.num]
            ELSE IF value.kind = "str" THEN IntOfStr(value.str)
            ELSE [ok |-> FALSE, num |-> 0]
  IN IF iv.ok /\ 0 <= iv.num /\ iv.num <= MaxScore THEN iv.num ELSE NULL

\* parsing.py:48  \bscore\s*[:=]\s*([0-3])\b tried at token p: the position of
\* the digit, 0 if there is no match at p.
ScoreKvAt(s, p) ==
  IF Lower(s[p]) = "score" /\ (p = 1 \/ ~IsWordChar(s[p - 1]))
  THEN LET q == SkipSpaces(s, p + 1)
       IN IF q <= Len(s) /\ s[q] \in {":", "="}
          THEN LET r == SkipSpaces(s, q + 1)
               IN IF /\ r <= Len(s) /\ s[r] \in {"0", "1", "2", "3"}
                     /\ (r = Len(s) \/ ~IsWordChar(s[r + 1]))
                  THEN r ELSE 0
          ELSE 0
  ELSE 0

\* _RE_SCORE_KV.search(text): the digit of the leftmost match, NULL if none.
RE_SCORE_KV_search(s) ==
  LET hits == {p \in 1 .. Len(s) : ScoreKvAt(s, p) # 0}
  IN IF hits = {} THEN NULL
     ELSE DigitValue(s[ScoreKvAt(s, CHOOSE p \in hits : \A m \in hits : p <= m)])

\* parsing.py:32  str(reason_val) for a str or a number, else None.
reason_of(value) ==
  IF value.kind = "str" THEN value.str
  ELSE IF value.kind = "int" THEN <<ToString(value.num)>>
  ELSE NoReasonText

\* parsing.py:15-42
parse_score_and_reason(text) ==
  LET block == extract_json_block(text)
      obj == json_loads(block)
      score == normalize_score(get_ci_key(obj.members, "score"))
      m == RE_SCORE_KV_search(text)
  IN IF block # NoBlock /\ obj.ok /\ score # NULL
     THEN <<score, reason_of(get_ci_key(obj.members, "reason"))>>
     ELSE IF m # NULL THEN <<m, NoReasonText>>
     ELSE <<NULL, NoReasonText>>

\* The replies handed to the parser.  Short texts: every sequence of at most
\* MaxTextLen tokens over the characters the scan distinguishes.
ScanAlphabet == {"{", "}", QUOTE, BACKSLASH, ":", "1"}
ShortTexts == UNION {[1 .. n -> ScanAlphabet] : n \in 0 .. MaxTextLen}

\* Replies of the shape the prompt asks for, {"<key>": <score>, "reason": "<reason>"},
\* with scores inside and outside the range, as numbers and as strings, and
\* reasons holding braces, escaped quotes and the words of the fallback pattern.
ScoreTexts ==
  {<<"0">>, <<"1">>, <<"2">>, <<"3">>, <<"7">>, <<"-", "1">>, <<"1", "2">>, <<"0", "1">>,
   <<QUOTE, "3", QUOTE>>, <<QUOTE, "7", QUOTE>>, <<QUOTE, "ok", QUOTE>>, <<"{", "}">>}
ReasonTexts ==
  {<<"ok">>, <<>>, <<"score", ":", SPACE, "2">>, <<"Score", "=", "7">>,
   <<"{", BACKSLASH, QUOTE, "}">>, <<"}">>, <<"noise", SPACE, "ok">>}
KeyTexts == {"score", "Score", "noise"}
ObjectText(key, sc, r) ==
  <<"{", QUOTE, key, QUOTE, ":", SPACE>> \o sc
    \o <<",", SPACE, QUOTE, "reason", QUOTE, ":", SPACE, QUOTE>> \o r \o <<QUOTE, "}">>
ObjectTexts ==
  {ObjectText(key, sc, r) : key \in KeyTexts, sc \in ScoreTexts, r \in ReasonTexts}
ScoreOnlyTexts ==
  {<<"{", QUOTE, key, QUOTE, ":", SPACE>> \o sc \o <<"}">> :
     key \in KeyTexts, sc \in ScoreTexts}
\* What a model wraps around its answer: a code fence, chatter, an earlier
\* brace span that is no JSON, a second object.
Wrapped(t) ==
  {t,
   <<FENCE, "json", SPACE>> \o t \o <<SPACE, FENCE>>,
   <<SPACE, FENCE>> \o t \o <<FENCE, SPACE>>,
   <<FENCE>> \o t,
   <<"noise", SPACE>> \o t \o <<SPACE, "noise">>,
   <<"{", "1", "}", SPACE>> \o t,
   <<"{", "1", "}">> \o t \o <<"{", "}">>,
   <<"{", "{", "}", "}">> \o t,
   t \o <<"{", "}">>,
   <<"{", "}">> \o t,
   <<QUOTE>> \o t,
   <<"score", ":", SPACE, "1", SPACE>> \o t}
PlainTexts ==
  {<<"noise", SPACE, "score", ":", SPACE, "1", SPACE, "noise">>,
   <<"Score", SPACE, "=", "3">>,
   <<"score", "=", "3", "7">>,
   <<"score", ":", "7">>,
   <<"noise", "score", ":", "1">>,
   <<"score", ":", "2", "ok">>,
   <<"score", SPACE, "2">>,
   <<"score", ":", "7", SPACE, "score", ":", "0">>,
   <<"{", QUOTE, "score", QUOTE, ":", "1", ",", QUOTE, "score", QUOTE, ":", "7", "}">>,
   <<"{", QUOTE, "Score", QUOTE, ":", "7", ",", QUOTE, "score", QUOTE, ":", "2", "}">>,
   <<"{", QUOTE, "score", QUOTE, ":", "1", ",", QUOTE, "reason", QUOTE, ":", "7", "}">>,
   <<"{", QUOTE, "score", QUOTE, ":", "1", ",", QUOTE, "reason", QUOTE, ":", "{", "}", "}">>,
   <<"{", QUOTE, "reason", QUOTE, ":", QUOTE, "ok", QUOTE, "}">>}
ReplyTexts ==
  ShortTexts \cup PlainTexts \cup UNION {Wrapped(t) : t \in ObjectTexts \cup ScoreOnlyTexts}

\* One call parse_score_and_reason(text).
InitParse ==
  /\ pc = "parse_score_and_reason" /\ error = "none"
  /\ conn = "none" /\ client = "none"
  /\ cfg = PriorConfig /\ run_key = <<>> /\ total_rows = 0
  /\ db = EmptyTables /\ tx = EmptyTables /\ now = 1
  /\ window = NoWindow /\ items = <<>> /\ i = 0
  /\ attempt = 1 /\ total_ms = 0 /\ last = NoLast /\ result = NoResult
  /\ seen = NoneSeen /\ hist = <<>> /\ ops = NoOp
  /\ sessions = NoSessions
  /\ \E t \in ReplyTexts : parser = [NoParser EXCEPT !.pc = "parse", !.text = t]

ParseReply ==
  /\ pc = "parse_score_and_reason" /\ parser.pc = "parse"
  /\ LET r == parse_score_and_reason(parser.text)
     IN parser' = [parser EXCEPT !.pc = "parsed",
                                 !.block = extract_json_block(parser.text),
                                 !.score = r[1], !.reason = r[2]]
  /\ UNCHANGED <<pc, error, conn, client, db, tx, now, procVars, inputVars, ops, sessions>>

NextParse == ParseReply

SpecParse == InitParse /\ [][NextParse]_vars

\* ------------------------------------------------------ db.py: gen_run_key
\* Mutation: the alphabet with the look-alike digits 0 and 1 left in.
ALPHABET_with_zero_and_one ==
  <<"0", "1", "A", "B", "C", "D", "E", "F", "G", "H", "J", "K", "M", "N", "P", "Q",
    "R", "S", "T", "V", "W", "X", "Y", "Z", "2", "3", "4", "5", "6", "7", "8", "9">>

\* Mutation: a symbol listed twice in place of another.
ALPHABET_with_repeated_symbol ==
  <<"A", "A", "C", "D", "E", "F", "G", "H", "J", "K", "M", "N", "P", "Q",
    "R", "S", "T", "V", "W", "X", "Y", "Z", "2", "3", "4", "5", "6", "7", "8", "9">>

\* db.py:15  ALPHABET = "ABCDEFGHJKMNPQRSTVWXYZ23456789", character by character.
ALPHABET ==
  <<"A", "B", "C", "D", "E", "F", "G", "H", "J", "K", "M", "N", "P", "Q",
    "R", "S", "T", "V", "W", "X", "Y", "Z", "2", "3", "4", "5", "6", "7", "8", "9">>

\* secrets.choice(ALPHABET): any symbol of the alphabet, whatever was drawn
\* before.  The first KeyFreeDraws characters of a key are explored over the
\* whole alphabet; for the later ones the exploration follows one choice, the
\* symbol after the previous character (cyclically), so that every symbol
\* still occurs at every position.
secrets_choice(alphabet, drawn) ==
  IF Len(drawn) < KeyFreeDraws
  THEN {alphabet[j] : j \in 1 .. Len(alphabet)}
  ELSE LET j == CHOOSE j \in 1 .. Len(alphabet) : alphabet[j] = drawn[Len(drawn)]
       IN {alphabet[(j % Len(alphabet)) + 1]}

\* gen_run_key(n = 12): one secrets.choice per character, then the join.
InitKey ==
  /\ pc = "gen_run_key" /\ error = "none"
  /\ conn = "none" /\ client = "none"
  /\ cfg = PriorConfig /\ run_key = <<>> /\ total_rows = 0
  /\ db = EmptyTables /\ tx = EmptyTables /\ now = 1
  /\ window = NoWindow /\ items = <<>> /\ i = 0
  /\ attempt = 1 /\ total_ms = 0 /\ last = NoLast /\ result = NoResult
  /\ seen = NoneSeen /\ hist = <<>> /\ ops = NoOp
  /\ sessions = NoSessions
  /\ parser = NoParser

DrawChar ==
  /\ pc = "gen_run_key" /\ Len(run_key) < KeyLength
  /\ \E c \in secrets_choice(ALPHABET, run_key) : run_key' = Append(run_key, c)
  /\ UNCHANGED <<parser, pc, error, cfg, total_rows, conn, client, db, tx, now, procVars, ops,
                 sessions>>

ReturnKey ==
  /\ pc = "gen_run_key" /\ Len(run_key) = KeyLength
  /\ pc' = "returned"
  /\ UNCHANGED <<parser, error, conn, client, db, tx, now, procVars, inputVars, ops, sessions>>

NextKey ==
  \/ DrawChar
  \/ ReturnKey

SpecKey == InitKey /\ [][NextKey]_vars

\* ------------------------------------------ util/helpers.py, called directly
\* compute_qrel_window called on any total_available up to one past MaxTotal
\* and any start, end and limit, whether validate_range_and_limit accepts
\* them or not.
InitWindow ==
  /\ pc = "compute" /\ error = "none"
  /\ conn = "none" /\ client = "none"
  /\ cfg \in {[PriorConfig EXCEPT !.start_qrel = st, !.end_qrel = en, !.limit_qrels = li] :
                 st \in OptPositions, en \in OptPositions, li \in OptPositions}
  /\ run_key = "none" /\ total_rows \in 0 .. MaxTotal + 1
  /\ db = EmptyTables /\ tx = EmptyTables /\ now = 1
  /\ window = NoWindow /\ items = <<>> /\ i = 0
  /\ attempt = 1 /\ total_ms = 0 /\ last = NoLast /\ result = NoResult
  /\ seen = NoneSeen /\ hist = <<>> /\ ops = NoOp
  /\ sessions = NoSessions
  /\ parser = NoParser

ComputeWindow ==
  /\ pc = "compute"
  /\ window' = compute_qrel_window(total_rows, cfg.start_qrel, cfg.end_qrel, cfg.limit_qrels)
  /\ pc' = "computed"
  /\ UNCHANGED <<parser, error, conn, client, db, tx, now, items, i, attempt, total_ms, last,
                 result, seen, hist, inputVars, ops, sessions>>

NextWindow == ComputeWindow

SpecWindow == InitWindow /\ [][NextWindow]_vars

\* ------------------------------------------- two runs against one storage
\* Two callers with distinct run_keys, each on its own connection (autocommit
\* off, READ COMMITTED): a connection sees the committed rows and its own
\* pending ones.  Each caller does what run_once does with the registry:
\* start_run, then per item insert_prediction and, whenever it chooses,
\* conn.commit(), then finalize_run; "plan" is the scores its provider
\* calls yield, in order.
View(k) == [runs |-> db.runs, preds |-> db.preds \cup sessions[k].pending]

Plans == UNION {[1 .. n -> {NULL, 0, MaxScore}] : n \in 0 .. MaxTotal}

PairStartRun(k) ==
  /\ sessions[k].pc = "start_run"
  /\ ~start_run_conflicts(View(k), k)
  /\ db' = start_run(View(k), k, "ollama", PriorConfig)
  /\ sessions' = [sessions EXCEPT ![k].pc = "loop", ![k].pending = {}]
  /\ ops' = [op |-> "start_run", key |-> k, raised |-> FALSE]
  /\ UNCHANGED <<parser, pc, error, conn, client, tx, now, procVars, inputVars>>

PairInsertPrediction(k) ==
  LET s == sessions[k]
      idx == enumerate_idx(s.n + 1)
      pred == s.plan[s.n + 1]
  IN /\ s.pc = "loop" /\ s.n < Len(s.plan)
     /\ ~insert_prediction_conflicts(View(k), k, idx)
     /\ sessions' = [sessions EXCEPT
          ![k].n = s.n + 1,
          ![k].pending =
            insert_prediction(View(k), k, idx, s.n + 1, pred, NoReason,
                              is_correct_of(pred, Gold(s.n + 1)), ReplyMs,
                              Raw("ollama", "none")).preds \ db.preds]
     /\ ops' = [op |-> "insert_prediction", key |-> k, raised |-> FALSE]
     /\ UNCHANGED <<parser, pc, error, conn, client, db, tx, now, procVars, inputVars>>

PairCommit(k) ==
  /\ sessions[k].pc = "loop" /\ sessions[k].pending # {}
  /\ db' = View(k)
  /\ sessions' = [sessions EXCEPT ![k].pending = {}]
  /\ ops' = [op |-> "commit", key |-> k, raised |-> FALSE]
  /\ UNCHANGED <<parser, pc, error, conn, client, tx, now, procVars, inputVars>>

PairFinalizeRun(k) ==
  /\ sessions[k].pc = "loop" /\ sessions[k].n = Len(sessions[k].plan)
  /\ db' = finalize_run(View(k), k, now)
  /\ now' = now + 1
  /\ sessions' = [sessions EXCEPT ![k].pc = "done", ![k].pending = {}]
  /\ ops' = [op |-> "finalize_run", key |-> k, raised |-> FALSE]
  /\ UNCHANGED <<parser, pc, error, conn, client, tx, procVars, inputVars>>

InitPair ==
  /\ pc = "none" /\ error = "none"
  /\ conn = "none" /\ client = "none"
  /\ cfg = PriorConfig /\ run_key = "none" /\ total_rows = MaxTotal
  /\ db = EmptyTables /\ tx = EmptyTables /\ now = 1
  /\ window = NoWindow /\ items = <<>> /\ i = 0
  /\ attempt = 1 /\ total_ms = 0 /\ last = NoLast /\ result = NoResult
  /\ seen = NoneSeen /\ hist = <<>> /\ ops = NoOp
  /\ sessions \in [RunKeys -> {[pc |-> "start_run", plan |-> p, n |-> 0, pending |-> {}] :
                                 p \in Plans}]
  /\ parser = NoParser

NextPair ==
  \E k \in RunKeys :
    \/ PairStartRun(k)
    \/ PairInsertPrediction(k)
    \/ PairCommit(k)
    \/ PairFinalizeRun(k)

SpecPair == InitPair /\ [][NextPair]_vars

\* ---------------------------------------------------------------- claims
\* The llm_runs rows of this execution's run_key that this execution wrote.
ThisRun(t) == RunRows(t, run_key) \ PriorTables.runs
\* The llm_predictions rows under this execution's run_key.
ThisPreds(t) == PredRows(t, run_key)
\* Positions at which fetch_qrels has returned and finalize_run has not run.
AfterFetch == pc \in {"judge", "sleep", "insert", "commit", "final_commit", "finalize"}
ResolvedWindow ==
  compute_qrel_window(total_rows, cfg.start_qrel, cfg.end_qrel, cfg.limit_qrels)

\* C1: an official configuration whose resolved window is a subset is rejected
\* before start_run, so no RunRecord of this run is ever persisted.
C1_OfficialSubsetNeverPersisted ==
  (cfg.official /\ ResolvedWindow.is_subset) => ThisRun(db) = {}

\* C2: the rows fetch_qrels returns are exactly the resolved window: as many as
\* processed_target, the first one at position start_1b, also when start lies
\* beyond total_available.
C2_FetchReturnsResolvedWindow ==
  AfterFetch =>
    /\ Len(items) = window.processed_target
    /\ Len(items) > 0 => items[1] = window.start_1b

\* States of a live run_once in which "hist" lists exactly the inserts made:
\* inside the loop, and after finalize_run on the way out.
Recording ==
  Alive /\ (AfterFetch \/ (pc \in {"finally", "done"} /\ error = "none"))
IdxSet(preds) == {p.idx : p \in preds}

\* C3: provider calls that return no score or raise never stop the loop: the
\* k-th insert records the k-th fetched row, a raised call is recorded with a
\* null score and the diagnostic payload, all n rows are recorded once the
\* loop is left, and a started run ends finalized unless the storage failed.
C3_EveryRowRecorded ==
  /\ Recording =>
       /\ Cardinality(ThisPreds(tx)) = Len(hist)
       /\ \A k \in 1 .. Len(hist) :
            \E p \in ThisPreds(tx) :
              /\ p.idx = k
              /\ p.row = items[k]
              /\ hist[k].threw =>
                   (p.pred_score = NULL /\ p.raw.error = "exception during LLM call")
       /\ pc \in {"judge", "sleep", "insert"} => Len(hist) = i - 1
       /\ pc = "commit" => Len(hist) = i
       /\ pc \in {"final_commit", "finalize", "finally", "done"} => Len(hist) = Len(items)
  /\ (pc \in {"done", "failed"} /\ ThisRun(db) # {}) =>
       /\ error \in {"none", "StorageError"}
       /\ error = "none" => \A r \in ThisRun(db) : r.finished

\* C3 witness: two rows, the first call raised, the second returned no score,
\* and the run ended finalized with both recorded.
C3_Witness ==
  /\ pc = "done" /\ Len(hist) = 2
  /\ hist[1].threw /\ ~hist[2].threw
  /\ \A p \in ThisPreds(db) : p.pred_score = NULL
  /\ Cardinality(ThisPreds(db)) = 2
  /\ \A r \in ThisRun(db) : r.finished

\* C4: the single-call boundary of every client returns for every transport
\* outcome and never raises, and a failed exchange is returned with an error
\* marker in raw.
C4_SingleCallNeverRaises ==
  /\ ~seen.threw
  /\ seen.transport \notin {"none", "ok"} => last.raw.error # "none"

\* C5: a uniqueness conflict on the run_key is answered with a fresh key; the
\* run ends in the conflict only when no fresh key is free.
C5_CollisionRetriedWithFreshKey ==
  error = "UniqueViolation" => \A k \in RunKeys : start_run_conflicts(db, k)

LastBoundary(m, n) == (m \div n) * n
\* The durable predictions of this run are exactly those with idx 1..k.
DurableUpTo(k) ==
  /\ ThisPreds(db) = {p \in ThisPreds(tx) : p.idx <= k}
  /\ IdxSet(ThisPreds(db)) = 1 .. k
\* start_run has returned and finalize_run has not committed.
Unfinalized == Alive /\ (pc = "fetch" \/ AfterFetch)

\* C6 (as claimed): terminated at any point between start_run and
\* finalize_run, the durable state holds the unfinished RunRecord and idx 1..k,
\* k the largest multiple of commit_every not above the number of inserts made
\* (n after the final commit).
C6_DurableUpToInsertedBoundary ==
  (Unfinalized /\ cfg.commit_every >= 1) =>
    /\ ThisRun(db) # {} /\ \A r \in ThisRun(db) : ~r.finished
    /\ DurableUpTo(IF pc = "finalize" THEN Len(items)
                   ELSE LastBoundary(Len(hist), cfg.commit_every))

\* C6 (amended): the same, with k counted up to the last commit that has run:
\* between an insert and the batch commit that follows it the insert just made
\* does not count.
C6_DurableUpToLastCommit ==
  (Unfinalized /\ cfg.commit_every >= 1) =>
    /\ ThisRun(db) # {} /\ \A r \in ThisRun(db) : ~r.finished
    /\ DurableUpTo(IF pc = "finalize" THEN Len(items)
                   ELSE IF pc = "commit" THEN LastBoundary(Len(hist) - 1, cfg.commit_every)
                   ELSE LastBoundary(Len(hist), cfg.commit_every))

\* C6 witness: commit_every = 2, the second prediction inserted and its batch
\* commit not yet run: two predictions pending, none durable.
C6_Witness ==
  /\ Alive /\ pc = "commit" /\ cfg.commit_every = 2 /\ Len(hist) = 2
  /\ Cardinality(ThisPreds(tx)) = 2 /\ ThisPreds(db) = {}
  /\ \E r \in ThisRun(db) : ~r.finished

\* C9: is_correct is null exactly when pred_score is null, and otherwise says
\* whether pred_score equals the row's gold_score.
C9_IsCorrectMatchesScore ==
  \A p \in ThisPreds(tx) \cup ThisPreds(db) :
    /\ p.gold_score = Gold(p.row)
    /\ (p.is_correct = "null") <=> (p.pred_score = NULL)
    /\ p.pred_score # NULL => ((p.is_correct = "true") <=> (p.pred_score = p.gold_score))

\* C9 witness: the first row went through two attempts without a score, the
\* second row was scored with its gold label.
C9_Witness ==
  /\ Recording /\ Len(hist) = 2
  /\ hist[1].calls = 2 /\ ~hist[1].threw
  /\ \E p \in ThisPreds(tx) : p.idx = 1 /\ p.pred_score = NULL /\ p.is_correct = "null"
  /\ \E p \in ThisPreds(tx) : p.idx = 2 /\ p.pred_score = p.gold_score /\ p.is_correct = "true"

\* C10: the idx values inserted so far are exactly 1..m, m the number of rows
\* processed, the next insert is for idx m + 1, and idx k holds the k-th row
\* fetched, whatever the provider calls did.
C10_IdxGapFree ==
  Recording =>
    /\ IdxSet(ThisPreds(tx)) = 1 .. Len(hist)
    /\ Cardinality(ThisPreds(tx)) = Len(hist)
    /\ \A p \in ThisPreds(tx) : p.row = items[p.idx]
    /\ pc = "insert" => i = Len(hist) + 1

\* C10 witness: the first row's call raised and the second row still got idx 2.
C10_Witness ==
  /\ Recording /\ Len(hist) = 2 /\ hist[1].threw
  /\ IdxSet(ThisPreds(tx)) = {1, 2}

NullCount(preds) == Cardinality({p \in preds : p.pred_score = NULL})

\* C7: finalize_run leaves the run finished, stamped with the time of the call,
\* with invalid_pct = 100 * (null-score predictions of that run) / (predictions
\* of that run), 0.0 for a run without predictions, and 30.0 for 3 out of 10.
C7_FinalizeComputesInvalidPct ==
  ops.op = "finalize_run" =>
    \A r \in RunRows(db, ops.key) :
      LET total == Cardinality(PredRows(db, ops.key))
          nulls == NullCount(PredRows(db, ops.key))
      IN /\ r.finished
         /\ r.finished_at = now - 1
         /\ total = 0 => r.invalid_pct = <<0, 1>>
         /\ total > 0 => /\ r.invalid_pct[2] > 0
                         /\ r.invalid_pct[1] * total = 100 * nulls * r.invalid_pct[2]
         /\ (total = 10 /\ nulls = 3) => r.invalid_pct = <<30, 1>>

\* C7 witness: finalize_run on a run with 10 predictions, 3 of them without a
\* score, has stored 30.0.
C7_Witness ==
  /\ ops.op = "finalize_run" /\ ops.key = "RK2"
  /\ Cardinality(PredRows(db, "RK2")) = 10
  /\ NullCount(PredRows(db, "RK2")) = 3
  /\ \E r \in RunRows(db, "RK2") : r.finished /\ r.invalid_pct = <<30, 1>>

\* C8: a finished RunRecord is never mutated again, and a finalize_run on a
\* run that is already finished is surfaced as an error.
C8_FinishedRunNeverMutated ==
  [][\A r \in db.runs :
       r.finished =>
         /\ r \in db'.runs
         /\ (ops'.op = "finalize_run" /\ ops'.key = r.run_key) => ops'.raised]_vars

\* start_run has returned, the fetch has come back with zero rows, and the
\* process is alive.
EmptyFetched == Alive /\ ThisRun(db) # {} /\ pc # "fetch" /\ Len(items) = 0

\* C11: when the fetch returns zero rows, run_once makes no provider call and
\* inserts no prediction, calls finalize_run exactly once, and ends normally
\* with the RunRecord finished and invalid_pct = 0.0.
C11_EmptyWindowFinalizedAtOnce ==
  EmptyFetched =>
    /\ error = "none"
    /\ pc \in {"finalize", "finally", "done"}
    /\ seen.calls = 0 /\ seen.sleeps = 0 /\ hist = <<>>
    /\ ThisPreds(tx) = {} /\ ThisPreds(db) = {}
    /\ pc = "finalize" => (now = 1 /\ \A r \in ThisRun(db) : ~r.finished)
    /\ pc \in {"finally", "done"} =>
         /\ now = 2
         /\ \A r \in ThisRun(db) :
              r.finished /\ r.finished_at = 1 /\ r.invalid_pct = <<0, 1>>

\* C11 witness: a request that passed validation, found no row to fetch, and
\* ended normally with an empty, finished run.
C11_Witness ==
  /\ EmptyFetched /\ pc = "done" /\ error = "none" /\ conn = "closed"
  /\ total_rows = 0
  /\ \E r \in ThisRun(db) : r.finished /\ r.invalid_pct = <<0, 1>>
  /\ ThisPreds(db) = {}

\* call_with_retry has returned to its caller (its fn did not raise).
Returned == pc = "insert" /\ ~seen.threw
\* What call_with_retry returned is what its last invocation returned, with
\* the elapsed ms of all invocations summed.
ReturnsLastInvocation ==
  /\ result.pred = seen.score
  /\ result.reason = seen.reason
  /\ result.raw = seen.raw
  /\ result.ms_total = seen.elapsed

\* C12: with enabled = true, when the k-th invocation (k <= max(1, attempts))
\* is the first to return a score, the provider has been invoked exactly k
\* times and the call returns that invocation's score, reason and raw with
\* total_ms the sum of the elapsed ms of invocations 1..k.
C12_ReturnsFirstScore ==
  (Returned /\ cfg.retry_enabled /\ seen.score # NULL) =>
    /\ seen.calls = attempt
    /\ seen.nulls = seen.calls - 1
    /\ seen.sleeps = seen.calls - 1
    /\ seen.calls <= Max(1, cfg.retry_attempts)
    /\ ReturnsLastInvocation

\* C12 witness: attempts = 3, a read timeout, a reply without a score, then a
\* score: three invocations, total_ms the sum of all three.
C12_Witness ==
  /\ Returned /\ cfg.retry_enabled /\ cfg.retry_attempts = 3
  /\ seen.calls = 3 /\ seen.nulls = 2 /\ seen.score = MaxScore
  /\ result.pred = MaxScore
  /\ result.ms_total = TimeoutMs + ReplyMs + ReplyMs

\* C13: with enabled = true, when every invocation returns no score, the
\* provider has been invoked exactly max(1, attempts) times (once for
\* attempts <= 0) and the call returns a null score with the last
\* invocation's reason and raw and total_ms the sum over all invocations.
C13_ExhaustsAttempts ==
  (Returned /\ cfg.retry_enabled /\ seen.score = NULL) =>
    /\ seen.calls = Max(1, cfg.retry_attempts)
    /\ cfg.retry_attempts <= 0 => seen.calls = 1
    /\ seen.nulls = seen.calls
    /\ seen.sleeps = seen.calls - 1
    /\ ReturnsLastInvocation

\* C13 witness: attempts = 3, two replies without a score and a final read
\* timeout: the timeout's raw is returned with the three elapsed times summed.
C13_Witness ==
  /\ Returned /\ cfg.retry_enabled /\ cfg.retry_attempts = 3
  /\ seen.calls = 3 /\ seen.nulls = 3
  /\ result.pred = NULL /\ result.raw.error = "timeout"
  /\ result.ms_total = ReplyMs + ReplyMs + TimeoutMs

\* C14: with enabled = false the provider is invoked exactly once whatever
\* attempts is and whatever it returns, the call never sleeps, and it returns
\* that invocation's result with total_ms its elapsed ms.
C14_DisabledCallsOnce ==
  ~cfg.retry_enabled =>
    /\ pc # "sleep" /\ seen.sleeps = 0
    /\ seen.calls <= 1
    /\ Returned => (seen.calls = 1 /\ ReturnsLastInvocation)

\* C14 witness: enabled = false, attempts = 3, the one invocation returned
\* no score, and the call returned it.
C14_Witness ==
  /\ Returned /\ ~cfg.retry_enabled /\ cfg.retry_attempts = 3
  /\ seen.calls = 1 /\ seen.sleeps = 0
  /\ result.pred = NULL /\ result.ms_total = TimeoutMs

\* The request a configuration carries is well formed: whatever of start, end
\* and limit is set is at least 1, and start does not exceed end when both
\* are set.
WellFormed(c) ==
  /\ \A v \in {c.start_qrel, c.end_qrel, c.limit_qrels} \ {NULL} : v >= 1
  /\ (c.start_qrel # NULL /\ c.end_qrel # NULL) => c.start_qrel <= c.end_qrel
\* run_once is past the call of validate_range_and_limit.
Validated ==
  /\ Alive /\ cfg.has_range
  /\ pc \notin {"connect", "build_client", "plan"}
  /\ error # "ClientBuildError"

\* C15: validate_range_and_limit raises exactly when limit is set and <= 0, or
\* start is set and <= 0, or end is set and <= 0, or start and end are both
\* set and start > end; every other combination, all three unset included, is
\* accepted.
C15_ValidateRejectsExactlyMalformed ==
  Validated => ((error = "ValueError") <=> ~WellFormed(cfg))

\* C15 witness: start = 2 and end = 1, each positive, rejected for their order.
C15_Witness ==
  /\ Validated /\ error = "ValueError"
  /\ cfg.start_qrel = 2 /\ cfg.end_qrel = 1 /\ cfg.limit_qrels = NULL

\* C16: when validate_range_and_limit rejects the configuration the run aborts
\* before start_run: no RunRecord is persisted, no rows are fetched, no
\* provider call is made and no prediction is inserted.
C16_RejectedBeforeStartRun ==
  (cfg.has_range /\ ~WellFormed(cfg)) =>
    /\ pc \in {"connect", "build_client", "plan", "finally", "failed", "killed"}
    /\ db = PriorTables /\ tx = PriorTables
    /\ items = <<>>
    /\ seen.calls = 0 /\ hist = <<>>

\* C16 witness: limit = 0 on an otherwise free run_key: the run has ended in
\* the ValueError with the storage as it was.
C16_Witness ==
  /\ pc = "failed" /\ error = "ValueError" /\ conn = "closed"
  /\ cfg.limit_qrels = 0 /\ run_key = "RK2"
  /\ db = PriorTables

\* C17: the ms_total stored with each prediction is the sum of the elapsed ms
\* of every provider attempt made for that item, also when earlier attempts
\* returned no score and a later attempt raised.
C17_MsTotalSumsAllAttempts ==
  Recording =>
    \A k \in 1 .. Len(hist) :
      \A p \in ThisPreds(tx) : p.idx = k => p.ms_total = hist[k].elapsed

\* C18: on every exit path of run_once (normal completion, empty window,
\* validation failure, storage failure inside the loop, failure while building
\* the provider client) the storage connection is closed and the provider
\* client, if it was built, is closed.
C18_ResourcesReleasedOnExit ==
  pc \in {"done", "failed"} =>
    /\ conn = "closed"
    /\ client \in {"none", "closed"}

\* The tables a run with key k and the given scores leaves when it runs alone
\* on empty storage, finalized at time t.
RECURSIVE AloneInserted(_, _, _)
AloneInserted(k, plan, m) ==
  IF m = 0 THEN start_run(EmptyTables, k, "ollama", PriorConfig)
  ELSE insert_prediction(AloneInserted(k, plan, m - 1), k, m, m, plan[m], NoReason,
                         is_correct_of(plan[m], Gold(m)), ReplyMs, Raw("ollama", "none"))
Alone(k, plan, t) == finalize_run(AloneInserted(k, plan, Len(plan)), k, t)

\* C19: with two runs of distinct run_keys interleaving start_run,
\* insert_prediction, commit and finalize_run on one storage, every write of a
\* run touches only rows of its own run_key (committed or pending), and each
\* run ends with the predictions and the invalid_pct it produces alone.
C19_RunsAreIsolated ==
  /\ [][\A j \in RunKeys \ {ops'.key} :
          /\ RunRows(db', j) = RunRows(db, j)
          /\ PredRows(db', j) = PredRows(db, j)
          /\ sessions'[j] = sessions[j]]_vars
  /\ [](\A k \in RunKeys :
          sessions[k].pc = "done" =>
            \E t \in 1 .. now :
              /\ RunRows(db, k) = Alone(k, sessions[k].plan, t).runs
              /\ PredRows(db, k) = Alone(k, sessions[k].plan, t).preds)

\* C19 witness: "RK1" has been finalized with one of its two predictions
\* without a score (50.0) while "RK2", all of whose scores are null, has one
\* prediction committed and one pending.
C19_Witness ==
  /\ sessions["RK1"].pc = "done" /\ Len(sessions["RK1"].plan) = 2
  /\ \E r \in RunRows(db, "RK1") : r.finished /\ r.invalid_pct = <<50, 1>>
  /\ sessions["RK2"].pc = "loop" /\ sessions["RK2"].plan = <<NULL, NULL>>
  /\ Cardinality(PredRows(db, "RK2")) = 1
  /\ Cardinality(sessions["RK2"].pending) = 1

\* cfg is a Settings object as load_settings_file builds it, and run_once is
\* past its window step (pipeline.py:60-66).
LoadedAndPlanned ==
  /\ Alive /\ ~cfg.has_range
  /\ pc \notin {"connect", "build_client", "plan"}
  /\ error # "ClientBuildError"

\* C20: for a settings object loaded by load_settings_file, with a start and
\* end or with neither, run_once hands the window request to validation,
\* window computation, the fetch and the RunRecord and goes on to start_run:
\* the window step ends in no error other than the validation's.
C20_LoadedSettingsReachStartRun ==
  LoadedAndPlanned =>
    /\ error # "AttributeError"
    /\ WellFormed(cfg) => (error # "ValueError" /\ window = ResolvedWindow)

\* compute_qrel_window has returned for the request in cfg.
Computed == pc = "computed"
Accepted == ~validate_range_and_limit(cfg.start_qrel, cfg.end_qrel, cfg.limit_qrels)

\* C21: for 1 <= start <= end <= total_available, compute_qrel_window returns
\* start_1b = start, end_1b = end and intended_count = end - start + 1.
C21_RangeInsideTotalKept ==
  (Computed /\ 1 <= cfg.start_qrel /\ cfg.start_qrel <= cfg.end_qrel
            /\ cfg.end_qrel <= total_rows) =>
    /\ window.start_1b = cfg.start_qrel
    /\ window.end_1b = cfg.end_qrel
    /\ window.intended_count = cfg.end_qrel - cfg.start_qrel + 1

\* C21 witness: rows 2..3 of 3.
C21_Witness ==
  /\ Computed /\ total_rows = 3 /\ cfg.start_qrel = 2 /\ cfg.end_qrel = 3
  /\ window.start_1b = 2 /\ window.end_1b = 3 /\ window.intended_count = 2

\* C22: processed_target is min(intended_count, limit) when a limit is set and
\* intended_count when it is not; is_subset is true exactly when
\* processed_target < total_available; total = 1000 with limit = 100 gives
\* (100, true), total = 1000 with start = 1, end = 1000 and no limit gives
\* (1000, false).
C22_LimitCapsAndSubsetFlag ==
  /\ Computed =>
       /\ cfg.limit_qrels # NULL =>
            window.processed_target = Min(window.intended_count, cfg.limit_qrels)
       /\ cfg.limit_qrels = NULL => window.processed_target = window.intended_count
       /\ window.is_subset <=> (window.processed_target < total_rows)
  /\ LET w == compute_qrel_window(1000, NULL, NULL, 100)
     IN w.processed_target = 100 /\ w.is_subset
  /\ LET w == compute_qrel_window(1000, 1, 1000, NULL)
     IN w.processed_target = 1000 /\ ~w.is_subset

\* C22 witness: a limit of 1 on a range of 2 rows out of 3, and a subset.
C22_Witness ==
  /\ Computed /\ total_rows = 3 /\ cfg.start_qrel = 2 /\ cfg.end_qrel = NULL
  /\ cfg.limit_qrels = 1
  /\ window.intended_count = 2 /\ window.processed_target = 1 /\ window.is_subset

C24_WindowWithinBounds ==
  (Computed /\ total_rows >= 1 /\ Accepted) =>
    /\ 1 <= window.start_1b /\ window.start_1b <= window.end_1b
    /\ window.end_1b <= total_rows
    /\ 0 <= window.processed_target
    /\ window.processed_target <= window.intended_count
    /\ window.intended_count <= total_rows

\* C24 witness: start and end both beyond the single row there is.
C24_Witness ==
  /\ Computed /\ total_rows = 1 /\ Accepted
  /\ cfg.start_qrel = 2 /\ cfg.end_qrel = 3
  /\ window.start_1b = 1 /\ window.end_1b = 1 /\ window.intended_count = 1

UpperCaseLetters ==
  {"A", "B", "C", "D", "E", "F", "G", "H", "I", "J", "K", "L", "M", "N", "O", "P", "Q",
   "R", "S", "T", "U", "V", "W", "X", "Y", "Z"}
Digits2To9 == {"2", "3", "4", "5", "6", "7", "8", "9"}
Ambiguous == {"I", "L", "O", "U", "0", "1"}
CharsOf(key) == {key[j] : j \in 1 .. Len(key)}
AlphabetSymbols == CharsOf(ALPHABET)

\* C25: every key gen_run_key returns has exactly 12 characters, each an
\* upper-case letter or a digit 2-9, and none of them I, L, O, U, 0 or 1.
C25_KeyShape ==
  /\ pc = "returned" => Len(run_key) = 12
  /\ pc \in {"gen_run_key", "returned"} =>
       /\ CharsOf(run_key) \subseteq UpperCaseLetters \cup Digits2To9
       /\ CharsOf(run_key) \cap Ambiguous = {}

\* C25 witness: a returned key that starts with a digit and holds letters too.
C25_Witness ==
  /\ pc = "returned" /\ Len(run_key) = 12
  /\ run_key[1] = "9" /\ run_key[2] = "Z" /\ run_key[3] = "2"

C28_SleepsOnlyBetweenInvocations ==
  /\ pc = "judge" => seen.sleeps = seen.calls
  /\ pc = "sleep" =>
       /\ seen.sleeps = seen.calls - 1
       /\ cfg.retry_enabled
       /\ seen.score = NULL /\ ~seen.threw
       /\ seen.calls < Max(1, cfg.retry_attempts)
  /\ pc = "insert" => seen.sleeps = seen.calls - 1
  /\ (Returned /\ seen.score = NULL) =>
       \A kind \in {"ok", "read_timeout"} :
         seen.transport = kind =>
           seen.calls = (IF cfg.retry_enabled THEN Max(1, cfg.retry_attempts) ELSE 1)

\* C28 witness: two read timeouts and then a reply without a prediction, with
\* attempts = 3: three invocations, two sleeps.
C28_Witness ==
  /\ Returned /\ cfg.retry_enabled /\ cfg.retry_attempts = 3
  /\ seen.calls = 3 /\ seen.sleeps = 2 /\ seen.nulls = 3
  /\ seen.transport = "ok" /\ seen.elapsed = TimeoutMs + TimeoutMs + ReplyMs

\* The number of rows the fetch of this execution returns.
RowsFetched ==
  Len(fetch_qrels(total_rows, cfg.start_qrel, cfg.end_qrel, cfg.limit_qrels))

\* C30: whenever the durable state shows this execution's RunRecord finished,
\* the durable predictions of the run are exactly idx 1..n for the n rows
\* fetched: finalize_run is reached only after the commit that follows the
\* last insert, it is called at most once, and nothing is inserted after it.
C30_FinishedImpliesAllDurable ==
  /\ (\E r \in ThisRun(db) : r.finished) =>
       /\ IdxSet(ThisPreds(db)) = 1 .. RowsFetched
       /\ Cardinality(ThisPreds(db)) = RowsFetched
       /\ pc \in {"finally", "done", "killed"}
       /\ now = 2
       /\ Alive => (tx = db /\ Len(hist) = RowsFetched)
  /\ (Alive /\ pc = "finalize") =>
       /\ now = 1
       /\ ThisPreds(tx) = ThisPreds(db)
       /\ IdxSet(ThisPreds(db)) = 1 .. Len(items)

\* C30 witness: two rows, no batch commits (commit_every = 0), the run
\* finalized and both predictions durable.
C30_Witness ==
  /\ pc = "done" /\ cfg.commit_every = 0 /\ RowsFetched = 2
  /\ \E r \in ThisRun(db) : r.finished
  /\ IdxSet(ThisPreds(db)) = {1, 2}

\* ------------------------------------------------ claims on the reply parser
Parsed == pc = "parse_score_and_reason" /\ parser.pc = "parsed"

\* The text is one JSON object whose members are an integer "score" and a
\* string "reason".
SingleObject(text) ==
  LET obj == json_loads(text)
  IN /\ Len(text) > 0 /\ text[1] = "{" /\ obj.ok
     /\ {obj.members[j].key : j \in 1 .. Len(obj.members)} = {<<"score">>, <<"reason">>}
     /\ Len(obj.members) = 2
     /\ \A j \in 1 .. Len(obj.members) :
          obj.members[j].val.kind = (IF obj.members[j].key = <<"score">> THEN "int" ELSE "str")
MemberOf(text, key) ==
  LET obj == json_loads(text)
  IN obj.members[CHOOSE j \in 1 .. Len(obj.members) : obj.members[j].key = <<key>>].val

\* C27 (as stated): for a text that is a single JSON object with an integer
\* score v and a string reason r, the parser returns (v, r) when 0 <= v <= 3
\* and (null, null) when v lies outside [0, 3]; for every text the returned
\* score is null or an integer in [0, 3].
C27_OutOfRangeGivesNull ==
  Parsed =>
    /\ SingleObject(parser.text) =>
         LET v == MemberOf(parser.text, "score").num
             r == MemberOf(parser.text, "reason").str
         IN IF 0 <= v /\ v <= 3
            THEN parser.score = v /\ parser.reason = r
            ELSE parser.score = NULL /\ parser.reason = NoReasonText
    /\ parser.score = NULL \/ parser.score \in 0 .. 3

\* C27 (amended): as above, except that for v outside [0, 3] the result is
\* (null, null) only if the text nowhere holds the word "score" followed by
\* ":" or "=" and a single digit 0..3; if it does (inside the reason, say) the
\* parser returns the digit of the leftmost such place with a null reason.
C27_OutOfRangeGivesNullUnlessPattern ==
  Parsed =>
    /\ SingleObject(parser.text) =>
         LET v == MemberOf(parser.text, "score").num
             r == MemberOf(parser.text, "reason").str
             places == {p \in 1 .. Len(parser.text) : ScoreKvAt(parser.text, p) # 0}
         IN IF 0 <= v /\ v <= 3
            THEN parser.score = v /\ parser.reason = r
            ELSE /\ parser.reason = NoReasonText
                 /\ IF places = {}
                    THEN parser.score = NULL
                    ELSE LET p == CHOOSE p \in places : \A m \in places : p <= m
                         IN parser.score = DigitValue(parser.text[ScoreKvAt(parser.text, p)])
    /\ parser.score = NULL \/ parser.score \in 0 .. 3

\* An object with score 7 whose reason reads "score: 2" has been parsed to 2.
C27_Witness ==
  /\ Parsed /\ SingleObject(parser.text)
  /\ MemberOf(parser.text, "score").num = 7
  /\ MemberOf(parser.text, "reason").str = <<"score", ":", SPACE, "2">>
  /\ parser.score = 2 /\ parser.reason = NoReasonText

\* The scanner's state before each character of s (before Len(s) + 1: at the
\* end), taken from the quotes, escapes and braces alone.
LexOf(s) ==
  LET lex[k \in 1 .. Len(s) + 1] ==
        IF k = 1 THEN [depth |-> 0, in_str |-> FALSE, esc |-> FALSE]
        ELSE LET p == lex[k - 1]
                 c == s[k - 1]
             IN IF p.in_str
                THEN IF p.esc THEN [p EXCEPT !.esc = FALSE]
                     ELSE IF c = BACKSLASH THEN [p EXCEPT !.esc = TRUE]
                     ELSE IF c = QUOTE THEN [p EXCEPT !.in_str = FALSE]
                     ELSE p
                ELSE IF c = QUOTE THEN [p EXCEPT !.in_str = TRUE]
                ELSE IF c = "{" THEN [p EXCEPT !.depth = p.depth + 1]
                ELSE IF c = "}" /\ p.depth > 0 THEN [p EXCEPT !.depth = p.depth - 1]
                ELSE p
  IN lex

\* The top-level spans of s: from a "{" met outside every string and brace to
\* the "}" that closes it.
TopLevelSpans(s) ==
  LET lex == LexOf(s)
  IN {sp \in (1 .. Len(s)) \X (1 .. Len(s)) :
        /\ sp[1] < sp[2]
        /\ s[sp[1]] = "{" /\ lex[sp[1]].depth = 0 /\ ~lex[sp[1]].in_str
        /\ lex[sp[2] + 1].depth = 0
        /\ \A m \in sp[1] + 1 .. sp[2] : lex[m].depth > 0}
Decodable(s, sp) == json_loads(SubSeq(s, sp[1], sp[2])).ok

====
